---- MODULE Spec2Model ----
(***************************************************************************)
(* Model of the paper-trading ledger engine of kimcharli/my-mcp            *)
(* (src/server/trading/paper_trading.py, models.py, utils.py).             *)
(*                                                                         *)
(* Money is counted in cents and share quantities in whole shares, so      *)
(* cash and trade values are integers.  Python's float division (cost      *)
(* basis averaging) is modelled by exact rational arithmetic: a rational   *)
(* is a pair <<n, d>> in lowest terms with d > 0.  An Optional field is    *)
(* <<>> for None and <<v>> for a set value.                                *)
(***************************************************************************)
EXTENDS Integers, Sequences, FiniteSets, TLC

\* ---------------------------------------------------------------- bounds
MaxOrders == 2
MaxQty == 2
MaxDay == 2
\* calls and disk faults of a run of the persistence specification
MaxCalls == 4
MaxFaults == 1
\* update_positions calls in a run of the read-side specification
MaxUpdates == 1
\* concurrent invocations of the submit tool
MaxProcs == 2

\* ---------------------------------------------------------------- inputs
\* Prices and cash in cents.  With 19.90 of cash and prices of 1.00 and 6.00
\* the runs meet an order whose cost equals the cash exactly, an order the
\* cash cannot pay, proceeds smaller than the commission, and an average
\* cost that is not a whole number of cents.
Symbols == {"AAPL", "MSFT"}
Prices == {100, 600}
InitCash == {1990}
Quantities == 1..MaxQty

\* ------------------------------------------------------ program constants
COMMISSION == 495

OrderAction == {"BUY", "SELL", "BUY_TO_COVER", "SELL_SHORT"}
OrderType == {"MARKET", "LIMIT", "STOP", "STOP_LIMIT", "TRAILING_STOP"}
OrderStatus == {"OPEN", "EXECUTED", "CANCELED", "REJECTED", "EXPIRED"}

None == <<>>
Some(v) == <<v>>

\* ------------------------------------------------- float arithmetic (exact)
Abs(x) == IF x < 0 THEN -x ELSE x

RECURSIVE GCD(_, _)
GCD(a, b) == IF b = 0 THEN a ELSE GCD(b, a % b)

Rat(n, d) ==
    LET g == GCD(Abs(n), Abs(d))
        s == IF d < 0 THEN -1 ELSE 1
    IN  <<(s * n) \div g, (s * d) \div g>>

Q(n) == <<n, 1>>
RAdd(a, b) == Rat(a[1] * b[2] + b[1] * a[2], a[2] * b[2])
RSub(a, b) == Rat(a[1] * b[2] - b[1] * a[2], a[2] * b[2])
RMul(a, b) == Rat(a[1] * b[1], a[2] * b[2])
RDiv(a, b) == Rat(a[1] * b[2], a[2] * b[1])

\* ------------------------------------------------------------------ models
Position(symbol, quantity, cost_basis) ==
    [symbol |-> symbol, quantity |-> quantity, cost_basis |-> cost_basis,
     current_price |-> None, market_value |-> None,
     unrealized_pl |-> None, unrealized_pl_percent |-> None]

\* submitted_at is datetime.now() at construction
Order(order_id, symbol, action, quantity, order_type, limit_price, now) ==
    [order_id |-> order_id, symbol |-> symbol, action |-> action,
     quantity |-> quantity, order_type |-> order_type,
     limit_price |-> limit_price, stop_price |-> None,
     status |-> "OPEN", submitted_at |-> now,
     executed_at |-> None, execution_price |-> None]

Trade(order, price, timestamp) ==
    [trade_id |-> order.order_id, order_id |-> order.order_id,
     symbol |-> order.symbol, action |-> order.action,
     quantity |-> order.quantity, price |-> price,
     timestamp |-> timestamp, commission |-> COMMISSION]

PaperAccount(cash) ==
    [cash |-> cash, positions |-> <<>>, orders |-> <<>>,
     trades |-> <<>>, daily_pl |-> <<>>]

\* ----------------------------------------------------- dictionary helpers
Put(f, k, v) == [x \in (DOMAIN f) \cup {k} |-> IF x = k THEN v ELSE f[x]]
Del(f, k) == [x \in (DOMAIN f) \ {k} |-> f[x]]

\* ------------------------------------------------------------ create_order
CreateOrder(order_id, symbol, action, quantity, order_type, limit_price, now) ==
    Order(order_id, symbol, action, quantity, order_type, limit_price, now)

\* ------------------------------------------------------------ submit_order
\* The result of one call: the account as the call leaves it, the order
\* object as the call leaves it, how the call ended, whether it invoked
\* save_account, how many times, and the account as it was when it was
\* handed to save_account.  outcome "error" is an exception leaving the
\* function; named is the order status the returned message names, if any.
Result(acct, order, trade, outcome, success, saved) ==
    [account |-> acct, order |-> order, trade |-> trade,
     outcome |-> outcome, named |-> None, success |-> success, saved |-> saved,
     saves |-> IF saved THEN 1 ELSE 0,
     snapshot |-> IF saved THEN Some(acct) ELSE None]

\* f"Cannot cancel order with status {order.status.value}."
CannotCancel(acct, order) ==
    [Result(acct, Some(order), None, "cannot_cancel", FALSE, FALSE)
        EXCEPT !.named = Some(order.status)]

\* a rejection that still files the order in the account
RejectedButStored(acct, order, trade, outcome) ==
    Result([acct EXCEPT !.orders = Put(@, order.order_id, order)],
           order, Some(trade), outcome, FALSE, FALSE)

\* `return result` of a rejected market order
Rejected(acct, order, trade, outcome) ==
    Result(acct, order, Some(trade), outcome, FALSE, FALSE)

\* an execution that files the order and forgets its trade
RecordWithoutTrade(acct, order, trade) ==
    Result([acct EXCEPT !.orders = Put(@, order.order_id, order)],
           order, Some(trade), "executed", TRUE, TRUE)

\* an execution that saves the account before it files the order and the
\* trade
RecordSavedFirst(acct, order, trade) ==
    [Result([acct EXCEPT !.orders = Put(@, order.order_id, order),
                         !.trades = Append(@, trade)],
            order, Some(trade), "executed", TRUE, TRUE)
        EXCEPT !.snapshot = Some(acct)]

\* account.orders[order.order_id] = order; account.trades.append(trade);
\* save_account(account); return result
Record(acct, order, trade) ==
    Result([acct EXCEPT !.orders = Put(@, order.order_id, order),
                        !.trades = Append(@, trade)],
           order, Some(trade), "executed", TRUE, TRUE)

InsufficientFunds(cash, trade_value, commission) ==
    cash < trade_value + commission

\* a shares guard that only looks for a position, not at its size
InsufficientSharesUnsized(positions, order) ==
    order.action = "SELL" /\ order.symbol \notin DOMAIN positions

InsufficientShares(positions, order) ==
    order.action = "SELL" /\
        (order.symbol \notin DOMAIN positions
         \/ positions[order.symbol].quantity < order.quantity)

Debit(cash, trade_value, commission) == cash - (trade_value + commission)

\* proceeds credited without the commission
CreditGross(cash, trade_value, commission) == cash + trade_value

Credit(cash, trade_value, commission) == cash + (trade_value - commission)

\* an average that forgets to weight the old basis by the shares held
NewCostBasisUnweighted(position, quantity, trade_value) ==
    RDiv(RAdd(position.cost_basis, Q(trade_value)),
         Q(position.quantity + quantity))

\* the new cost basis of a held position after a buy (total_cost / total_shares)
NewCostBasis(position, quantity, trade_value) ==
    RDiv(RAdd(RMul(Q(position.quantity), position.cost_basis), Q(trade_value)),
         Q(position.quantity + quantity))

Buy(acct, order, trade, execution_price) ==
    LET trade_value == order.quantity * execution_price
        commission == trade.commission
        debited == [acct EXCEPT !.cash = Debit(@, trade_value, commission)]
    IN  IF InsufficientFunds(acct.cash, trade_value, commission)
        THEN Rejected(acct, order, trade, "insufficient_funds")
        ELSE IF order.symbol \in DOMAIN acct.positions
        THEN LET position == acct.positions[order.symbol]
                 total_shares == position.quantity + order.quantity
             IN  IF total_shares = 0
                 THEN \* ZeroDivisionError at total_cost / total_shares, after
                      \* cash and position.quantity were assigned
                      Result([debited EXCEPT
                                !.positions[order.symbol].quantity = total_shares],
                             order, Some(trade), "error", FALSE, FALSE)
                 ELSE Record([debited EXCEPT
                                !.positions[order.symbol].quantity = total_shares,
                                !.positions[order.symbol].cost_basis =
                                    NewCostBasis(position, order.quantity, trade_value)],
                             order, trade)
        ELSE Record([debited EXCEPT !.positions =
                        Put(@, order.symbol,
                            Position(order.symbol, order.quantity, Q(execution_price)))],
                    order, trade)

RealizedPL(trade_value, quantity, cost_basis) ==
    RSub(Q(trade_value), RMul(Q(quantity), cost_basis))

\* daily_pl[today] = realized_pl, overwriting the day's entry
SetDailyPL(daily_pl, day, realized_pl) == Put(daily_pl, day, realized_pl)

\* daily_pl[today] += realized_pl, the entry starting at 0
AddDailyPL(daily_pl, day, realized_pl) ==
    Put(daily_pl, day,
        RAdd(IF day \in DOMAIN daily_pl THEN daily_pl[day] ELSE Q(0), realized_pl))

\* a short sale that nets against the position already held
OpenShortMerging(positions, order, execution_price) ==
    IF order.symbol \in DOMAIN positions
    THEN [positions EXCEPT ![order.symbol].quantity = @ - order.quantity]
    ELSE Put(positions, order.symbol,
             Position(order.symbol, -order.quantity, Q(execution_price)))

\* account.positions[order.symbol] = Position(symbol, -quantity, execution_price)
OpenShort(positions, order, execution_price) ==
    Put(positions, order.symbol,
        Position(order.symbol, -order.quantity, Q(execution_price)))

\* a sell that treats every sale as closing the position
ClosedAlways(quantity) == TRUE

\* if position.quantity == 0
Closed(quantity) == quantity = 0

Sell(acct, order, trade, execution_price, day) ==
    LET trade_value == order.quantity * execution_price
        commission == trade.commission
        credited == [acct EXCEPT !.cash = Credit(@, trade_value, commission)]
    IN  IF InsufficientShares(acct.positions, order)
        THEN Rejected(acct, order, trade, "insufficient_shares")
        ELSE IF order.action = "SELL"
        THEN LET position == acct.positions[order.symbol]
                 quantity == position.quantity - order.quantity
             IN  IF Closed(quantity)
                 THEN Record([credited EXCEPT
                                !.daily_pl = AddDailyPL(@, day,
                                    RealizedPL(trade_value, order.quantity,
                                               position.cost_basis)),
                                !.positions = Del(@, order.symbol)],
                             order, trade)
                 ELSE Record([credited EXCEPT
                                !.positions[order.symbol].quantity = quantity],
                             order, trade)
        ELSE Record([credited EXCEPT !.positions =
                        OpenShort(@, order, execution_price)],
                    order, trade)

\* a non-market order stored in memory and never saved
StoreUnsaved(acct, order) ==
    Result([acct EXCEPT !.orders = Put(@, order.order_id, order)],
           order, None, "submitted", TRUE, FALSE)

\* non-market orders are stored and saved, nothing else
StoreOnly(acct, order) ==
    Result([acct EXCEPT !.orders = Put(@, order.order_id, order)],
           order, None, "submitted", TRUE, TRUE)

SubmitOrder(order, acct, execution_price, day) ==
    IF order.order_type = "MARKET"
    THEN LET stamped == [order EXCEPT !.status = "EXECUTED",
                                      !.executed_at = Some(day),
                                      !.execution_price = Some(execution_price)]
             trade == Trade(stamped, execution_price, day)
         IN  IF order.action \in {"BUY", "BUY_TO_COVER"}
             THEN Buy(acct, stamped, trade, execution_price)
             ELSE Sell(acct, stamped, trade, execution_price, day)
    ELSE StoreOnly(acct, order)

\* ------------------------------------------------------------ cancel_order
\* a cancel that only refuses orders already canceled
CanCancelUnlessCanceled(status) == status # "CANCELED"

\* a cancel that never refuses
CanCancelAny(status) == TRUE

\* order.status == OrderStatus.OPEN
CanCancel(status) == status = "OPEN"

CancelOrder(order_id, acct) ==
    IF order_id \notin DOMAIN acct.orders
    THEN Result(acct, None, None, "not_found", FALSE, FALSE)
    ELSE IF ~CanCancel(acct.orders[order_id].status)
    THEN CannotCancel(acct, acct.orders[order_id])
    ELSE Result([acct EXCEPT !.orders[order_id].status = "CANCELED"],
                Some([acct.orders[order_id] EXCEPT !.status = "CANCELED"]),
                None, "canceled", TRUE, TRUE)

\* ------------------------------------------------- model_dump(mode="json")
\* JSON values: null, numbers and strings are tagged; objects are functions
\* of their keys and arrays are sequences.  A float is written by its repr
\* and read back to the same float, so a number carries the value itself.
JNull == <<"null">>
JNumber(x) == <<"number", x>>
JString(s) == <<"string", s>>

\* datetime.isoformat() of the model's dates, and its parse
IsoFormat(d) == "2024-01-0" \o ToString(d)
FromIsoFormat(s) == CHOOSE d \in 0..(MaxDay + 1) : IsoFormat(d) = s

\* Optional[float] and Optional[datetime] fields
DumpFloat(x) == IF x = None THEN JNull ELSE JNumber(x[1])
DumpDatetime(x) == IF x = None THEN JNull ELSE JString(IsoFormat(x[1]))

DumpPosition(p) ==
    [symbol |-> JString(p.symbol), quantity |-> JNumber(p.quantity),
     cost_basis |-> JNumber(p.cost_basis),
     current_price |-> DumpFloat(p.current_price),
     market_value |-> DumpFloat(p.market_value),
     unrealized_pl |-> DumpFloat(p.unrealized_pl),
     unrealized_pl_percent |-> DumpFloat(p.unrealized_pl_percent)]

\* a dump that leaves the execution stamps of an order out
DumpOrderUnstamped(o) ==
    [order_id |-> JString(o.order_id), symbol |-> JString(o.symbol),
     action |-> JString(o.action), quantity |-> JNumber(o.quantity),
     order_type |-> JString(o.order_type),
     limit_price |-> DumpFloat(o.limit_price),
     stop_price |-> DumpFloat(o.stop_price),
     status |-> JString(o.status),
     submitted_at |-> JString(IsoFormat(o.submitted_at)),
     executed_at |-> JNull, execution_price |-> JNull]

DumpOrder(o) ==
    [order_id |-> JString(o.order_id), symbol |-> JString(o.symbol),
     action |-> JString(o.action), quantity |-> JNumber(o.quantity),
     order_type |-> JString(o.order_type),
     limit_price |-> DumpFloat(o.limit_price),
     stop_price |-> DumpFloat(o.stop_price),
     status |-> JString(o.status),
     submitted_at |-> JString(IsoFormat(o.submitted_at)),
     executed_at |-> DumpDatetime(o.executed_at),
     execution_price |-> DumpFloat(o.execution_price)]

DumpTrade(t) ==
    [trade_id |-> JString(t.trade_id), order_id |-> JString(t.order_id),
     symbol |-> JString(t.symbol), action |-> JString(t.action),
     quantity |-> JNumber(t.quantity), price |-> JNumber(t.price),
     timestamp |-> JString(IsoFormat(t.timestamp)),
     commission |-> JNumber(t.commission)]

ModelDump(acct) ==
    [cash |-> JNumber(acct.cash),
     positions |-> [k \in DOMAIN acct.positions |-> DumpPosition(acct.positions[k])],
     orders |-> [k \in DOMAIN acct.orders |-> DumpOrder(acct.orders[k])],
     trades |-> [i \in DOMAIN acct.trades |-> DumpTrade(acct.trades[i])],
     daily_pl |-> [d \in DOMAIN acct.daily_pl |-> JNumber(acct.daily_pl[d])]]

\* --------------------------------------------------------- model_validate
LoadFloat(j) == IF j = JNull THEN None ELSE Some(j[2])
LoadDatetime(j) == IF j = JNull THEN None ELSE Some(FromIsoFormat(j[2]))

ValidatePosition(j) ==
    [symbol |-> j.symbol[2], quantity |-> j.quantity[2],
     cost_basis |-> j.cost_basis[2],
     current_price |-> LoadFloat(j.current_price),
     market_value |-> LoadFloat(j.market_value),
     unrealized_pl |-> LoadFloat(j.unrealized_pl),
     unrealized_pl_percent |-> LoadFloat(j.unrealized_pl_percent)]

ValidateOrder(j) ==
    [order_id |-> j.order_id[2], symbol |-> j.symbol[2],
     action |-> j.action[2], quantity |-> j.quantity[2],
     order_type |-> j.order_type[2],
     limit_price |-> LoadFloat(j.limit_price),
     stop_price |-> LoadFloat(j.stop_price),
     status |-> j.status[2],
     submitted_at |-> FromIsoFormat(j.submitted_at[2]),
     executed_at |-> LoadDatetime(j.executed_at),
     execution_price |-> LoadFloat(j.execution_price)]

ValidateTrade(j) ==
    [trade_id |-> j.trade_id[2], order_id |-> j.order_id[2],
     symbol |-> j.symbol[2], action |-> j.action[2],
     quantity |-> j.quantity[2], price |-> j.price[2],
     timestamp |-> FromIsoFormat(j.timestamp[2]),
     commission |-> j.commission[2]]

\* PaperAccount.cash: float = 100000.0, in cents
DEFAULT_CASH == 10000000

\* the fields of PaperAccount all have defaults; a key that is present
\* must hold a value of the field's type
Valid(data) ==
    /\ "cash" \in DOMAIN data => data.cash[1] = "number"
    /\ "orders" \in DOMAIN data =>
          \A k \in DOMAIN data.orders :
              /\ data.orders[k].action[2] \in OrderAction
              /\ data.orders[k].order_type[2] \in OrderType
              /\ data.orders[k].status[2] \in OrderStatus
    /\ "trades" \in DOMAIN data =>
          \A i \in DOMAIN data.trades : data.trades[i].action[2] \in OrderAction

ModelValidate(data) ==
    [cash |-> IF "cash" \in DOMAIN data THEN data.cash[2] ELSE DEFAULT_CASH,
     positions |-> IF "positions" \in DOMAIN data
                   THEN [k \in DOMAIN data.positions |->
                            ValidatePosition(data.positions[k])]
                   ELSE <<>>,
     orders |-> IF "orders" \in DOMAIN data
                THEN [k \in DOMAIN data.orders |-> ValidateOrder(data.orders[k])]
                ELSE <<>>,
     trades |-> IF "trades" \in DOMAIN data
                THEN [i \in DOMAIN data.trades |-> ValidateTrade(data.trades[i])]
                ELSE <<>>,
     daily_pl |-> IF "daily_pl" \in DOMAIN data
                  THEN [d \in DOMAIN data.daily_pl |-> data.daily_pl[d][2]]
                  ELSE <<>>]

\* ------------------------------------------------------ PAPER_ACCOUNT_FILE
\* The file is absent, cannot be opened, holds text that is not JSON, or
\* holds a JSON value (data, as json.load returns it).
NoFile == [kind |-> "absent", data |-> None]
Unreadable == [kind |-> "unreadable", data |-> None]
NotJson == [kind |-> "not_json", data |-> None]
JsonFile(data) == [kind |-> "json", data |-> Some(data)]

\* ------------------------------------------------------------ save_account
\* the file a successful save_json_file leaves: json.dump of
\* account.model_dump(mode="json")
SaveAccount(acct) == JsonFile(ModelDump(acct))

\* what a call of save_json_file meets: the file is written, open() fails
\* and the file stays as it was, or open() has emptied the file and the
\* write fails; it returns True only in the first case
Fates == {"written", "refused", "truncated"}

SaveJsonFile(f, acct, fate) ==
    CASE fate = "written" -> SaveAccount(acct)
      [] fate = "refused" -> f
      [] OTHER -> NotJson

\* ----------------------------------------------------------- setup_account
\* a reset that always takes the default balance
SetupAccountDefault(cash) ==
    Result(PaperAccount(DEFAULT_CASH), None, None, "created", TRUE, TRUE)

SetupAccount(cash) ==
    Result(PaperAccount(cash), None, None, "created", TRUE, TRUE)

\* ------------------------------------------------------------ load_account
\* load_json_file: None when the file is absent or reading it raises
LoadJsonFile(f) == IF f.kind = "json" THEN f.data ELSE None

\* `if data:` of a JSON object
Truthy(data) == DOMAIN data # {}

\* outcome "error" is the ValidationError of model_validate leaving
\* load_account: no account is returned
LoadAccount(f) ==
    LET data == LoadJsonFile(f)
    IN  IF data # None /\ Truthy(data[1])
        THEN IF Valid(data[1])
             THEN Result(ModelValidate(data[1]), None, None, "loaded", TRUE, FALSE)
             ELSE Result(None, None, None, "error", FALSE, FALSE)
        ELSE SetupAccount(DEFAULT_CASH)

\* -------------------------------------------------------- update_positions
UpdatePosition(position, price) ==
    LET market_value == Q(position.quantity * price)
        cost == RMul(Q(position.quantity), position.cost_basis)
        unrealized_pl == RSub(market_value, cost)
    IN  [position EXCEPT
            !.current_price = Some(price),
            !.market_value = Some(market_value),
            !.unrealized_pl = Some(unrealized_pl),
            !.unrealized_pl_percent =
                IF cost[1] = 0 THEN @
                ELSE Some(RMul(RDiv(unrealized_pl, cost), Q(100)))]

\* the division by quantity * cost_basis raises ZeroDivisionError
Undivisible(position) == position.quantity * position.cost_basis[1] = 0

\* The loop over account.positions.items() in the dictionary's order, which
\* is `visit` here; it stops at the first position whose update raises.
RECURSIVE UpdateLoop(_, _, _)
UpdateLoop(positions, current_prices, visit) ==
    IF visit = <<>> THEN [positions |-> positions, raised |-> FALSE]
    ELSE LET symbol == Head(visit)
         IN  IF symbol \notin DOMAIN current_prices
             THEN UpdateLoop(positions, current_prices, Tail(visit))
             ELSE LET updated == [positions EXCEPT ![symbol] =
                                     UpdatePosition(@, current_prices[symbol])]
                  IN  IF Undivisible(positions[symbol])
                      THEN [positions |-> updated, raised |-> TRUE]
                      ELSE UpdateLoop(updated, current_prices, Tail(visit))

UpdatePositions(acct, current_prices, visit) ==
    LET loop == UpdateLoop(acct.positions, current_prices, visit)
    IN  Result([acct EXCEPT !.positions = loop.positions], None, None,
               IF loop.raised THEN "error" ELSE "updated", ~loop.raised, FALSE)

\* ------------------------------------------------------ get_trading_history
\* float comparison
RGt(a, b) == a[1] * b[2] > b[1] * a[2]

\* a filter that drops the trades made exactly at the cutoff
RecentStrict(t, cutoff_date) == t.timestamp > cutoff_date

\* t.timestamp >= cutoff_date
Recent(t, cutoff_date) == t.timestamp >= cutoff_date

\* sorted(..., key=timestamp, reverse=True): a stable sort, so trades with
\* equal timestamps keep the order they have in account.trades
RECURSIVE InsertNewest(_, _)
InsertNewest(t, sorted) ==
    IF sorted = <<>> THEN <<t>>
    ELSE IF Head(sorted).timestamp > t.timestamp
    THEN <<Head(sorted)>> \o InsertNewest(t, Tail(sorted))
    ELSE <<t>> \o sorted

RECURSIVE NewestFirst(_)
NewestFirst(trades) ==
    IF trades = <<>> THEN <<>>
    ELSE InsertNewest(Head(trades), NewestFirst(Tail(trades)))

\* The clock counts days: cutoff_date = now - timedelta(days).
GetTradingHistory(acct, days, now) ==
    LET cutoff_date == now - days
        recent_trades == SelectSeq(acct.trades, LAMBDA t : Recent(t, cutoff_date))
    IN  NewestFirst(recent_trades)

\* -------------------------------------------------------- analyze_portfolio
\* `x or 0` for an optional float
OrZero(x) == IF x = None THEN Q(0) ELSE x[1]

RECURSIVE RSum(_)
RSum(values) ==
    IF values = <<>> THEN Q(0) ELSE RAdd(Head(values), RSum(Tail(values)))

\* a sort in ascending order of value
RECURSIVE InsertSmallest(_, _)
InsertSmallest(entry, sorted) ==
    IF sorted = <<>> THEN <<entry>>
    ELSE IF RGt(entry.value, Head(sorted).value)
    THEN <<Head(sorted)>> \o InsertSmallest(entry, Tail(sorted))
    ELSE <<entry>> \o sorted

\* sorted(portfolio_dict.items(), key=value, reverse=True), stable
RECURSIVE InsertLargest(_, _)
InsertLargest(entry, sorted) ==
    IF sorted = <<>> THEN <<entry>>
    ELSE IF RGt(Head(sorted).value, entry.value)
    THEN <<Head(sorted)>> \o InsertLargest(entry, Tail(sorted))
    ELSE <<entry>> \o sorted

RECURSIVE LargestFirst(_)
LargestFirst(entries) ==
    IF entries = <<>> THEN <<>>
    ELSE InsertLargest(Head(entries), LargestFirst(Tail(entries)))

\* x / total * 100 if total > 0 else 0
PercentOf(x, total) ==
    IF RGt(total, Q(0)) THEN RMul(RDiv(x, total), Q(100)) ELSE Q(0)

\* max and min of the daily P/L values
Best(values) == CHOOSE v \in values : \A w \in values : ~RGt(w, v)
Worst(values) == CHOOSE v \in values : \A w \in values : ~RGt(v, w)

\* the "daily_pl" entry of the result, present when account.daily_pl is not
\* empty
DailyPLSummary(daily_pl) ==
    LET days == DOMAIN daily_pl
        values == {daily_pl[d] : d \in days}
        total == RSum([i \in 1..Cardinality(days) |->
                        daily_pl[CHOOSE d \in days :
                            Cardinality({e \in days : e <= d}) = i]])
    IN  IF days = {} THEN None
        ELSE Some([avg |-> RDiv(total, Q(Cardinality(days))),
                   best |-> Best(values), worst |-> Worst(values)])

\* the result that reports an empty portfolio
NoPositions == [message |-> "No positions in portfolio to analyze."]

\* `visit` is the order account.positions.items() iterates in.
AnalyzePortfolio(acct, visit) ==
    IF DOMAIN acct.positions = {} THEN NoPositions
    ELSE LET n == Len(visit)
             pos(i) == acct.positions[visit[i]]
             total_value ==
                 RAdd(Q(acct.cash),
                      RSum([i \in 1..n |-> OrZero(pos(i).market_value)]))
             total_invested ==
                 RSum([i \in 1..n |-> RMul(Q(pos(i).quantity), pos(i).cost_basis)])
             portfolio_dict ==
                 [i \in 1..n |->
                     [symbol |-> visit[i],
                      value |-> OrZero(pos(i).market_value),
                      weight |-> PercentOf(OrZero(pos(i).market_value), total_value),
                      unrealized_pl |-> OrZero(pos(i).unrealized_pl),
                      unrealized_pl_percent |-> OrZero(pos(i).unrealized_pl_percent)]]
             sorted_positions == LargestFirst(portfolio_dict)
             total_unrealized_pl ==
                 RSum([i \in 1..n |-> sorted_positions[i].unrealized_pl])
             invested == RSub(total_value, Q(acct.cash))
         IN  [total_value |-> total_value,
              cash |-> acct.cash,
              cash_percent |-> PercentOf(Q(acct.cash), total_value),
              invested |-> invested,
              invested_percent |-> PercentOf(invested, total_value),
              total_unrealized_pl |-> total_unrealized_pl,
              total_unrealized_pl_percent |->
                  PercentOf(total_unrealized_pl, total_invested),
              positions |-> sorted_positions,
              num_positions |-> n,
              most_concentrated |->
                  [symbol |-> sorted_positions[1].symbol,
                   weight |-> sorted_positions[1].weight],
              daily_pl |-> DailyPLSummary(acct.daily_pl)]

\* ------------------------------------------------------------------- state
\* account  the PaperAccount object the service calls are given
\* file     the snapshot in PAPER_ACCOUNT_FILE
\* today    the calendar date, datetime.now()
\* last     the last call: its inputs (cash is setup_account's, prices is
\*          update_positions' current_prices, days is get_trading_history's),
\*          its result (history and analysis are the values the read-side
\*          calls return), whether its save wrote the file, and the account
\*          and file it started from
\* ledger   the account the run started from, whether a submit_order call
\*          has ended in an exception, and the calls and disk faults counted
\*          by the persistence specification
\* inflight the invocations of the submit tool (trading.submit_order), each
\*          with its own local variables
VARIABLES account, file, today, last, ledger, inflight

vars == <<account, file, today, last, ledger, inflight>>

Procs == 1..MaxProcs

\* an invocation that has not started
Idle ==
    [pc |-> "idle", request |-> None, found |-> None, loaded |-> None,
     account |-> None, order |-> None, price |-> None, outcome |-> "none",
     success |-> FALSE, wrote |-> FALSE, seq |-> 0, written |-> None]

\* a call that was given no current_prices
NoPrices == [symbol \in {} |-> 0]

Call(op, order, order_id, day, r, pre_account, pre_file) ==
    [op |-> op, order |-> order, order_id |-> order_id, day |-> day,
     outcome |-> r.outcome, named |-> r.named, success |-> r.success,
     saved |-> r.saved, saves |-> r.saves, written |-> r.saved, cash |-> 0,
     prices |-> NoPrices, days |-> 0,
     history |-> <<>>, analysis |-> None,
     trade |-> r.trade, pre |-> [account |-> pre_account, file |-> pre_file]]

NoCall(acct) ==
    [op |-> "none", order |-> None, order_id |-> 0, day |-> 0,
     outcome |-> "none", named |-> None, success |-> FALSE, saved |-> FALSE,
     saves |-> 0, written |-> FALSE, cash |-> 0,
     prices |-> NoPrices, days |-> 0,
     history |-> <<>>, analysis |-> None,
     trade |-> None, pre |-> [account |-> acct, file |-> SaveAccount(acct)]]

Start(acct) ==
    /\ account = acct
    /\ file = SaveAccount(acct)
    /\ today = 1
    /\ last = NoCall(acct)
    /\ ledger = [opening |-> acct, raised |-> FALSE, calls |-> 0, faults |-> 0]
    /\ inflight = [p \in Procs |-> Idle]

\* setup_account(cash): a fresh account, saved
Init == \E c \in InitCash : Start(PaperAccount(c))

\* generate_id("order"): an id no order of the account carries
NextId(acct) == Cardinality(DOMAIN acct.orders) + 1

\* the number of orders stored since the run started
Stored == Cardinality(DOMAIN account.orders) - Cardinality(DOMAIN ledger.opening.orders)

\* The requests submitted: market orders of every symbol, action, quantity
\* and execution price; non-market orders of every symbol, action and type
\* (submit_order reads neither their quantity nor the quoted price).
Requests ==
    [symbol : Symbols, action : OrderAction, quantity : Quantities,
     order_type : {"MARKET"}, price : Prices]
    \cup
    [symbol : Symbols, action : OrderAction, quantity : {MaxQty},
     order_type : OrderType \ {"MARKET"}, price : {100}]

\* create_order followed by submit_order on the account
Submit ==
    /\ UNCHANGED inflight
    /\ Stored < MaxOrders
    /\ \E req \in Requests :
          LET order == CreateOrder(NextId(account), req.symbol, req.action,
                                   req.quantity, req.order_type, None, today)
              r == SubmitOrder(order, account, req.price, today)
          IN  /\ account' = r.account
              /\ file' = IF r.saved THEN SaveAccount(r.snapshot[1]) ELSE file
              /\ last' = Call("submit", Some(r.order), order.order_id, today, r,
                              account, file)
              /\ ledger' = [ledger EXCEPT !.raised = @ \/ r.outcome = "error"]
    /\ UNCHANGED today

Cancel ==
    /\ UNCHANGED inflight
    /\ \E order_id \in 1..NextId(account) :
          LET r == CancelOrder(order_id, account)
          IN  /\ account' = r.account
              /\ file' = IF r.saved THEN SaveAccount(r.snapshot[1]) ELSE file
              /\ last' = Call("cancel", r.order, order_id, today, r, account, file)
    /\ UNCHANGED <<today, ledger>>

\* the calendar date changes between calls
NextDay ==
    /\ UNCHANGED inflight
    /\ today < MaxDay
    /\ today' = today + 1
    /\ UNCHANGED <<account, file, last, ledger>>

Next ==
    \/ Submit
    \/ Cancel
    \/ NextDay

Spec == Init /\ [][Next]_vars

\* An account that has already closed a position today: bought one share
\* of AAPL at 100 and sold it at 600, as submit_order leaves it.
RoundTrip(cash) ==
    LET buy == CreateOrder(1, "AAPL", "BUY", 1, "MARKET", None, 1)
        bought == SubmitOrder(buy, PaperAccount(cash), 100, 1).account
        sell == CreateOrder(2, "AAPL", "SELL", 1, "MARKET", None, 1)
    IN  SubmitOrder(sell, bought, 600, 1).account

InitTraded == \E c \in InitCash : Start(RoundTrip(c))

SpecTraded == InitTraded /\ [][Next]_vars

\* ------------------------------------------------------------ persistence
\* The service calls with the file as the disk keeps it: writes can fail,
\* and the file can be removed or damaged between calls.
StoreRequests ==
    [symbol : {"AAPL"}, action : OrderAction, quantity : {1},
     order_type : {"MARKET"}, price : Prices]
    \cup
    [symbol : {"AAPL"}, action : {"BUY"}, quantity : {MaxQty},
     order_type : {"LIMIT"}, price : {100}]

\* setup_account(cash), cash defaulting to 100000.0
SetupCash == InitCash \cup {DEFAULT_CASH}

\* current_prices: a price for some of the symbols
Quotes == UNION {[S -> Prices] : S \in SUBSET Symbols}

\* the orders a dictionary with these keys can be iterated in
Visits(S) ==
    {visit \in [1..Cardinality(S) -> S] :
        \A i, j \in 1..Cardinality(S) : visit[i] = visit[j] => i = j}

\* file contents no save_account wrote: {} and {"cash": "abc"}
EmptyObject == [k \in {} |-> JNull]
InvalidObject == [cash |-> JString("abc")]

\* a write may fail while the run has a fault to spend
Fated(fate) == fate = "written" \/ ledger.faults < MaxFaults

\* the ledger after one more call, which wrote (or not) with this fate
Tick(l, saved, fate) ==
    [l EXCEPT !.calls = @ + 1,
              !.faults = @ + (IF saved /\ fate # "written" THEN 1 ELSE 0)]

StoreSetup ==
    /\ UNCHANGED inflight
    /\ ledger.calls < MaxCalls
    /\ \E cash \in SetupCash, fate \in Fates :
          LET r == SetupAccount(cash)
          IN  /\ Fated(fate)
              /\ account' = r.account
              /\ file' = SaveJsonFile(file, r.account, fate)
              /\ last' = [Call("setup", None, 0, today, r, account, file)
                            EXCEPT !.written = (fate = "written"), !.cash = cash]
              /\ ledger' = [Tick(ledger, TRUE, fate) EXCEPT
                                !.opening = r.account, !.raised = FALSE]
    /\ UNCHANGED today

StoreLoad ==
    /\ UNCHANGED inflight
    /\ ledger.calls < MaxCalls
    /\ \E fate \in Fates :
          LET r == LoadAccount(file)
          IN  /\ Fated(fate)
              /\ account' = IF r.outcome = "error" THEN account ELSE r.account
              /\ file' = IF r.saved THEN SaveJsonFile(file, r.snapshot[1], fate) ELSE file
              /\ last' = [Call("load", None, 0, today, r, account, file)
                            EXCEPT !.written = (r.saved /\ fate = "written")]
              /\ ledger' = IF r.outcome = "error" THEN Tick(ledger, FALSE, fate)
                            ELSE [Tick(ledger, r.saved, fate) EXCEPT
                                    !.opening = r.account, !.raised = FALSE]
    /\ UNCHANGED today

StoreSave ==
    /\ UNCHANGED inflight
    /\ ledger.calls < MaxCalls
    /\ \E fate \in Fates :
          /\ Fated(fate)
          /\ file' = SaveJsonFile(file, account, fate)
          /\ last' = [Call("save", None, 0, today,
                            Result(account, None, None, "saved", fate = "written", TRUE),
                            account, file)
                        EXCEPT !.written = (fate = "written")]
          /\ ledger' = Tick(ledger, TRUE, fate)
    /\ UNCHANGED <<account, today>>

StoreSubmit ==
    /\ UNCHANGED inflight
    /\ ledger.calls < MaxCalls
    /\ Stored < MaxOrders
    /\ \E req \in StoreRequests, fate \in Fates :
          LET order == CreateOrder(NextId(account), req.symbol, req.action,
                                   req.quantity, req.order_type, None, today)
              r == SubmitOrder(order, account, req.price, today)
          IN  /\ Fated(fate)
              /\ account' = r.account
              /\ file' = IF r.saved THEN SaveJsonFile(file, r.snapshot[1], fate) ELSE file
              /\ last' = [Call("submit", Some(r.order), order.order_id, today, r,
                               account, file)
                            EXCEPT !.written = (r.saved /\ fate = "written")]
              /\ ledger' = [Tick(ledger, r.saved, fate) EXCEPT
                                !.raised = @ \/ r.outcome = "error"]
    /\ UNCHANGED today

StoreCancel ==
    /\ UNCHANGED inflight
    /\ ledger.calls < MaxCalls
    /\ \E order_id \in 1..NextId(account), fate \in Fates :
          LET r == CancelOrder(order_id, account)
          IN  /\ Fated(fate)
              /\ account' = r.account
              /\ file' = IF r.saved THEN SaveJsonFile(file, r.snapshot[1], fate) ELSE file
              /\ last' = [Call("cancel", r.order, order_id, today, r, account, file)
                            EXCEPT !.written = (r.saved /\ fate = "written")]
              /\ ledger' = Tick(ledger, r.saved, fate)
    /\ UNCHANGED today

StoreUpdate ==
    /\ UNCHANGED inflight
    /\ ledger.calls < MaxCalls
    /\ \E current_prices \in Quotes, visit \in Visits(DOMAIN account.positions) :
          LET r == UpdatePositions(account, current_prices, visit)
          IN  /\ account' = r.account
              /\ last' = Call("update", None, 0, today, r, account, file)
    /\ ledger' = Tick(ledger, FALSE, "written")
    /\ UNCHANGED <<file, today>>

\* the file is removed, made unreadable or overwritten from outside
Damage ==
    /\ UNCHANGED inflight
    /\ ledger.faults < MaxFaults
    /\ file' \in {NoFile, Unreadable, NotJson,
                  JsonFile(EmptyObject), JsonFile(InvalidObject)}
    /\ last' = Call("damage", None, 0, today,
                    Result(account, None, None, "none", FALSE, FALSE), account, file)
    /\ ledger' = [ledger EXCEPT !.faults = @ + 1]
    /\ UNCHANGED <<account, today>>

NextStore ==
    \/ StoreSetup
    \/ StoreLoad
    \/ StoreSave
    \/ StoreSubmit
    \/ StoreCancel
    \/ StoreUpdate
    \/ Damage
    \/ NextDay

SpecStore == Init /\ [][NextStore]_vars

\* submit_order called again with an order object the account already
\* stores: the stamps are written to that same object, whatever the outcome
Resubmit ==
    /\ UNCHANGED inflight
    /\ ledger.calls < MaxCalls
    /\ \E order_id \in DOMAIN account.orders, price \in Prices, fate \in Fates :
          LET r == SubmitOrder(account.orders[order_id], account, price, today)
              aliased(acct) == [acct EXCEPT !.orders[order_id] = r.order]
          IN  /\ Fated(fate)
              /\ account' = aliased(r.account)
              /\ file' = IF r.saved
                         THEN SaveJsonFile(file, aliased(r.snapshot[1]), fate)
                         ELSE file
              /\ last' = [Call("resubmit", Some(r.order), order_id, today, r,
                               account, file)
                            EXCEPT !.written = (r.saved /\ fate = "written")]
              /\ ledger' = [Tick(ledger, r.saved, fate) EXCEPT
                                !.raised = @ \/ r.outcome = "error"]
    /\ UNCHANGED today

\* the calls that store orders and change their status
NextLife ==
    \/ StoreSubmit
    \/ StoreCancel
    \/ Resubmit
    \/ NextDay

SpecLife == Init /\ [][NextLife]_vars

\* --------------------------------------------------------------- read side
\* The service calls on an account that already holds a position: two
\* shares of AAPL bought at 100 the day before the run starts.
Held(cash) ==
    LET buy == CreateOrder(1, "AAPL", "BUY", 2, "MARKET", None, 0)
    IN  SubmitOrder(buy, PaperAccount(cash), 100, 0).account

InitHeld == \E c \in InitCash : Start(Held(c))

\* get_trading_history(account, days), days defaulting to 30
HistoryDays == {1, 30}

\* market orders of one share
HeldRequests ==
    [symbol : Symbols, action : {"BUY", "SELL", "SELL_SHORT"}, quantity : {1},
     order_type : {"MARKET"}, price : Prices]

\* create_order followed by submit_order on the account
HeldSubmit ==
    /\ UNCHANGED inflight
    /\ Stored < MaxOrders
    /\ \E req \in HeldRequests :
          LET order == CreateOrder(NextId(account), req.symbol, req.action,
                                   req.quantity, req.order_type, None, today)
              r == SubmitOrder(order, account, req.price, today)
          IN  /\ account' = r.account
              /\ file' = IF r.saved THEN SaveAccount(r.snapshot[1]) ELSE file
              /\ last' = Call("submit", Some(r.order), order.order_id, today, r,
                              account, file)
              /\ ledger' = [ledger EXCEPT !.raised = @ \/ r.outcome = "error"]
    /\ UNCHANGED today

\* update_positions(account, current_prices) on the account object
Update ==
    /\ UNCHANGED inflight
    /\ ledger.calls < MaxUpdates
    /\ \E current_prices \in Quotes, visit \in Visits(DOMAIN account.positions) :
          LET r == UpdatePositions(account, current_prices, visit)
          IN  /\ account' = r.account
              /\ last' = [Call("update", None, 0, today, r, account, file)
                            EXCEPT !.prices = current_prices]
    /\ ledger' = Tick(ledger, FALSE, "written")
    /\ UNCHANGED <<file, today>>

\* analyze_portfolio(account)
Analyze ==
    /\ UNCHANGED inflight
    /\ \E visit \in Visits(DOMAIN account.positions) :
          last' = [Call("analyze", None, 0, today,
                        Result(account, None, None, "returned", TRUE, FALSE),
                        account, file)
                     EXCEPT !.analysis = Some(AnalyzePortfolio(account, visit))]
    /\ UNCHANGED <<account, file, today, ledger>>

\* get_trading_history(account, days)
History ==
    /\ UNCHANGED inflight
    /\ \E days \in HistoryDays :
          last' = [Call("history", None, 0, today,
                        Result(account, None, None, "returned", TRUE, FALSE),
                        account, file)
                     EXCEPT !.days = days,
                            !.history = GetTradingHistory(account, days, today)]
    /\ UNCHANGED <<account, file, today, ledger>>

NextHeld ==
    \/ HeldSubmit
    \/ Update
    \/ Analyze
    \/ History
    \/ NextDay

SpecHeld == InitHeld /\ [][NextHeld]_vars

\* ------------------------------------------------- trading.submit_order
\* Invocations of the submit tool.  Each one validates its parameters,
\* loads the account from the file, awaits the quote, then creates the
\* order, executes it on the account it loaded and saves; other
\* invocations run while it awaits the quote.
ToolRequests ==
    [symbol : {"AAPL"}, action : OrderAction, quantity : 0..1,
     order_type : {"MARKET", "LIMIT", "STOP"}, limit_price : {None, Some(100)}]

\* a tool that checks nothing
ValidateNothing(req) == "ok"

\* the checks made before the account is loaded
Validate(req) ==
    IF req.order_type = "LIMIT" /\ req.limit_price = None THEN "no_limit_price"
    ELSE IF req.quantity <= 0 THEN "invalid_quantity"
    ELSE "ok"

\* an execution that reads the file again before it applies the order
ReloadedAccount(call) == LoadAccount(file).account

\* an execution on the loaded account with the trades list read again from
\* the file
MixedAccount(call) ==
    [call.account[1] EXCEPT !.trades = LoadAccount(file).account.trades]

\* the account the order is executed on: the object loaded before the quote
\* was awaited
StaleAccount(call) == call.account[1]

\* the saves of the invocations that have executed
Writes == Cardinality({p \in Procs : inflight[p].seq > 0})

\* validation and load_account, up to the await of the quote
ToolBegin ==
    /\ \E p \in Procs, req \in ToolRequests :
          /\ inflight[p].pc = "idle"
          /\ LET verdict == Validate(req)
                  r == LoadAccount(file)
              IN  IF verdict # "ok"
                  THEN /\ inflight' = [inflight EXCEPT ![p] =
                             [@ EXCEPT !.pc = "done", !.request = Some(req),
                                       !.outcome = verdict]]
                       /\ file' = file
                  ELSE IF r.outcome = "error"
                  THEN /\ inflight' = [inflight EXCEPT ![p] =
                             [@ EXCEPT !.pc = "done", !.request = Some(req),
                                       !.found = Some(file),
                                       !.outcome = "load_error"]]
                       /\ file' = file
                  ELSE /\ file' = IF r.saved THEN SaveAccount(r.snapshot[1]) ELSE file
                       /\ inflight' = [inflight EXCEPT ![p] =
                             [@ EXCEPT !.pc = "quoting", !.request = Some(req),
                                       !.found = Some(file),
                                       !.loaded = Some(file'),
                                       !.account = Some(r.account),
                                       !.wrote = r.saved]]
    /\ UNCHANGED <<account, today, last, ledger>>

\* MarketData.get_quote raises, times out or returns no price
ToolQuoteFails ==
    /\ \E p \in Procs :
          /\ inflight[p].pc = "quoting"
          /\ inflight' = [inflight EXCEPT ![p] =
                [@ EXCEPT !.pc = "done", !.outcome = "quote_error"]]
    /\ UNCHANGED <<account, file, today, last, ledger>>

\* the quote arrives: create_order, submit_order (which saves), return
ToolExecute ==
    /\ \E p \in Procs, price \in Prices :
          /\ inflight[p].pc = "quoting"
          /\ LET call == inflight[p]
                  req == call.request[1]
                  order == CreateOrder(p, req.symbol, req.action, req.quantity,
                                       req.order_type, req.limit_price, today)
                  r == SubmitOrder(order, StaleAccount(call), price, today)
              IN  /\ file' = IF r.saved THEN SaveAccount(r.snapshot[1]) ELSE file
                  /\ inflight' = [inflight EXCEPT ![p] =
                        [@ EXCEPT !.pc = "done",
                                  !.account = Some(r.account),
                                  !.order = Some(r.order),
                                  !.price = Some(price),
                                  !.outcome = r.outcome,
                                  !.success = r.success,
                                  !.wrote = @ \/ r.saved,
                                  !.seq = IF r.saved THEN Writes + 1 ELSE 0,
                                  !.written = IF r.saved THEN Some(file') ELSE None]]
    /\ UNCHANGED <<account, today, last, ledger>>

NextTool ==
    \/ ToolBegin
    \/ ToolQuoteFails
    \/ ToolExecute

\* the file is absent or holds a fresh account
InitTool ==
    \E cash \in InitCash :
        /\ account = PaperAccount(cash)
        /\ file \in {NoFile, SaveAccount(PaperAccount(cash))}
        /\ today = 1
        /\ last = NoCall(PaperAccount(cash))
        /\ ledger = [opening |-> PaperAccount(cash), raised |-> FALSE,
                     calls |-> 0, faults |-> 0]
        /\ inflight = [p \in Procs |-> Idle]

SpecTool == InitTool /\ [][NextTool]_vars

\* ================================================================= claims
\* the last call's account and file before the call, and its order
Pre == last.pre.account
PreFile == last.pre.file
LastOrder == last.order[1]
LastTrade == last.trade[1]
LastValue == LastOrder.quantity * LastTrade.price

MarketSubmit == last.op = "submit" /\ LastOrder.order_type = "MARKET"
MarketBuy == MarketSubmit /\ LastOrder.action \in {"BUY", "BUY_TO_COVER"}
MarketSell == MarketSubmit /\ LastOrder.action = "SELL"

\* C1: a market order rejected for insufficient funds or insufficient shares
\* leaves the account (cash, positions, orders, trades, daily_pl) exactly as
\* it was before the call, is not stored, returns success == False and does
\* not invoke save_account (the file keeps its content).
C1_RejectionLeavesAccount ==
    (MarketSubmit /\ last.outcome \in {"insufficient_funds", "insufficient_shares"})
        => /\ account = Pre
           /\ LastOrder.order_id \notin DOMAIN account.orders
           /\ \A i \in 1..Len(account.trades) :
                  account.trades[i].order_id # LastOrder.order_id
           /\ ~last.success
           /\ ~last.saved
           /\ file = PreFile

\* a SELL rejected for lack of shares on an account that holds a position
\* and has executed an order
C1_Witness ==
    /\ MarketSell
    /\ last.outcome = "insufficient_shares"
    /\ Pre.positions # <<>>
    /\ Pre.trades # <<>>

\* the orders executed since the run started
Executed ==
    {id \in DOMAIN account.orders \ DOMAIN ledger.opening.orders :
        account.orders[id].status = "EXECUTED"}

RECURSIVE Sum(_, _)
Sum(f, S) ==
    IF S = {} THEN 0
    ELSE LET x == CHOOSE y \in S : TRUE IN f[x] + Sum(f, S \ {x})

\* quantity * execution price of an executed order: paid by a buy leg,
\* received by a sell leg
Leg(id) ==
    LET o == account.orders[id]
        v == o.quantity * o.execution_price[1]
    IN  IF o.action \in {"BUY", "BUY_TO_COVER"} THEN -v ELSE v

C3_AllOrNothing ==
    MarketSubmit =>
        \/ account = Pre
        \/ /\ LastOrder.order_id \in DOMAIN account.orders
           /\ account.orders[LastOrder.order_id] = LastOrder
           /\ account.trades = Append(Pre.trades, LastTrade)

\* a / b = c / d for fractions with non-zero denominators
SameRatio(a, b, c, d) == a * d = c * b

\* the trades of a symbol since the run started
TradesOf(symbol) ==
    {i \in (Len(ledger.opening.trades) + 1)..Len(account.trades) :
        account.trades[i].symbol = symbol}

\* C4: a successful market BUY of q at p creates the position with quantity
\* q and cost basis p when the symbol is not held, and otherwise makes it
\* quantity q0+q with cost basis (q0*b0 + q*p)/(q0+q); a position built by
\* buys alone has quantity*cost_basis equal to the amount paid for the shares.
C4_BuyCostBasis ==
    /\ (MarketSubmit /\ LastOrder.action = "BUY" /\ last.success) =>
          LET sym == LastOrder.symbol
              q == LastOrder.quantity
              p == LastTrade.price
              new == account.positions[sym]
          IN  /\ sym \in DOMAIN account.positions
              /\ new.symbol = sym
              /\ IF sym \notin DOMAIN Pre.positions
                 THEN new.quantity = q /\ new.cost_basis = <<p, 1>>
                 ELSE LET old == Pre.positions[sym]
                      IN  /\ new.quantity = old.quantity + q
                          /\ SameRatio(new.cost_basis[1], new.cost_basis[2],
                                       old.quantity * old.cost_basis[1]
                                           + q * p * old.cost_basis[2],
                                       old.cost_basis[2] * (old.quantity + q))
              /\ \A other \in DOMAIN Pre.positions \ {sym} :
                    other \in DOMAIN account.positions
                    /\ account.positions[other] = Pre.positions[other]
    /\ \A sym \in DOMAIN account.positions :
          (/\ ~ledger.raised
           /\ sym \notin DOMAIN ledger.opening.positions
           /\ \A i \in TradesOf(sym) : account.trades[i].action = "BUY") =>
              LET paid == Sum([i \in TradesOf(sym) |->
                                 account.trades[i].quantity * account.trades[i].price],
                              TradesOf(sym))
                  pos == account.positions[sym]
              IN  pos.quantity * pos.cost_basis[1] = paid * pos.cost_basis[2]

\* a second BUY of a held symbol at another price, the average not a whole
\* number of cents
C4_Witness ==
    /\ MarketSubmit /\ LastOrder.action = "BUY" /\ last.success
    /\ LastOrder.symbol \in DOMAIN Pre.positions
    /\ Pre.positions[LastOrder.symbol].quantity > 0
    /\ Pre.positions[LastOrder.symbol].cost_basis # <<LastTrade.price, 1>>
    /\ account.positions[LastOrder.symbol].cost_basis[2] # 1

\* C5: a successful market SELL of the whole held quantity removes the
\* symbol from positions and adds trade_value - quantity*cost_basis to
\* daily_pl[today], the entry counting as 0 when absent; the other days'
\* entries stay.
C5_PositionClosure ==
    (MarketSell /\ last.success
        /\ Pre.positions[LastOrder.symbol].quantity = LastOrder.quantity) =>
        LET old == Pre.positions[LastOrder.symbol]
            before == IF last.day \in DOMAIN Pre.daily_pl
                      THEN Pre.daily_pl[last.day] ELSE <<0, 1>>
            after == account.daily_pl[last.day]
        IN  /\ LastOrder.symbol \notin DOMAIN account.positions
            /\ last.day \in DOMAIN account.daily_pl
            \* after = before + trade_value - quantity * cost_basis
            /\ SameRatio(after[1], after[2],
                         before[1] * old.cost_basis[2]
                             + LastValue * before[2] * old.cost_basis[2]
                             - LastOrder.quantity * old.cost_basis[1] * before[2],
                         before[2] * old.cost_basis[2])
            /\ \A d \in DOMAIN Pre.daily_pl \ {last.day} :
                  d \in DOMAIN account.daily_pl
                  /\ account.daily_pl[d] = Pre.daily_pl[d]
            /\ DOMAIN account.daily_pl = DOMAIN Pre.daily_pl \cup {last.day}

\* a closing SELL at a profit on a day that already has a daily_pl entry
C5_Witness ==
    /\ MarketSell /\ last.success
    /\ Pre.positions[LastOrder.symbol].quantity = LastOrder.quantity
    /\ last.day \in DOMAIN Pre.daily_pl
    /\ Pre.daily_pl[last.day] # <<0, 1>>
    /\ account.daily_pl[last.day] # Pre.daily_pl[last.day]

\* C6: funds guard.  A market BUY or BUY_TO_COVER of q at p is rejected for
\* insufficient funds if and only if cash < q*p + 4.95; an order whose total
\* cost equals the cash exactly is accepted and leaves cash == 0.
C6_FundsGuard ==
    MarketBuy =>
        /\ (last.outcome = "insufficient_funds") <=> (Pre.cash < LastValue + 495)
        /\ (Pre.cash = LastValue + 495) => (last.success /\ account.cash = 0)

\* C7: shares guard.  A market SELL of q is rejected for insufficient shares
\* if and only if the symbol has no position or the held quantity is below
\* q; otherwise it succeeds, and a successful SELL leaves no negative
\* quantity behind.
C7_SharesGuard ==
    MarketSell =>
        LET sym == LastOrder.symbol
            lacking == sym \notin DOMAIN Pre.positions
                       \/ Pre.positions[sym].quantity < LastOrder.quantity
        IN  /\ (last.outcome = "insufficient_shares") <=> lacking
            /\ ~lacking <=> last.success
            /\ last.success =>
                  /\ Pre.positions[sym].quantity > 0
                  /\ \/ sym \notin DOMAIN account.positions
                     \/ account.positions[sym].quantity
                            = Pre.positions[sym].quantity - LastOrder.quantity
                  /\ \A k \in DOMAIN account.positions :
                        Pre.positions[k].quantity >= 0
                            => account.positions[k].quantity >= 0

\* a SELL against a short position is rejected
C7_Witness ==
    /\ MarketSell
    /\ LastOrder.symbol \in DOMAIN Pre.positions
    /\ Pre.positions[LastOrder.symbol].quantity < 0
    /\ last.outcome = "insufficient_shares"

\* C8: cash never goes negative.
C8_CashNeverNegative == account.cash >= 0

\* C9: cancel_order on a stored OPEN order succeeds, sets that order's
\* status to CANCELED, changes nothing else in the account and saves it; on
\* a stored order that is not OPEN it fails naming the current status, and
\* on an unknown id it fails as not found, both leaving the account and the
\* file as they were without invoking save_account.
C9_CancelStateMachine ==
    last.op = "cancel" =>
        LET id == last.order_id IN
        IF id \notin DOMAIN Pre.orders
        THEN /\ last.outcome = "not_found"
             /\ ~last.success /\ ~last.saved
             /\ account = Pre /\ file = PreFile
        ELSE IF Pre.orders[id].status = "OPEN"
        THEN /\ last.outcome = "canceled"
             /\ last.success /\ last.saved
             /\ account.orders[id].status = "CANCELED"
             /\ account = [Pre EXCEPT !.orders[id].status = "CANCELED"]
             /\ file = SaveAccount(account)
        ELSE /\ last.outcome = "cannot_cancel"
             /\ last.named = <<Pre.orders[id].status>>
             /\ ~last.success /\ ~last.saved
             /\ account = Pre /\ file = PreFile

\* cancel_order refused on an EXECUTED order of an account holding a position
C9_Witness ==
    /\ last.op = "cancel"
    /\ last.outcome = "cannot_cancel" /\ last.named = <<"EXECUTED">>
    /\ account.positions # <<>>

\* C10: submit_order of a LIMIT, STOP, STOP_LIMIT or TRAILING_STOP order
\* stores the order with status OPEN and no execution fields, leaves cash,
\* positions, trades and daily_pl as they were, saves the account and
\* returns success, whatever the action and the funds or shares held; and
\* no stored non-market order is ever executed.
C10_NonMarketOnlyRecorded ==
    /\ (last.op = "submit" /\ LastOrder.order_type # "MARKET") =>
          /\ last.success /\ last.saved
          /\ last.trade = <<>>
          /\ LastOrder.status = "OPEN"
          /\ LastOrder.executed_at = <<>> /\ LastOrder.execution_price = <<>>
          /\ LastOrder.order_id \notin DOMAIN Pre.orders
          /\ account = [Pre EXCEPT !.orders =
                            [id \in DOMAIN Pre.orders \cup {LastOrder.order_id} |->
                                IF id = LastOrder.order_id THEN LastOrder
                                ELSE Pre.orders[id]]]
          /\ file = SaveAccount(account)
    /\ \A id \in DOMAIN account.orders :
          account.orders[id].order_type # "MARKET" =>
              /\ account.orders[id].status \in {"OPEN", "CANCELED"}
              /\ account.orders[id].executed_at = <<>>
              /\ account.orders[id].execution_price = <<>>
              /\ \A i \in 1..Len(account.trades) :
                    account.trades[i].order_id # id

\* a non-market BUY stored by an account that cannot pay any commission
C10_Witness ==
    /\ last.op = "submit" /\ LastOrder.order_type # "MARKET"
    /\ LastOrder.action = "BUY"
    /\ Pre.cash < 495
    /\ Pre.positions # <<>>
    /\ last.success

\* ------------------------------------------------------------------- C11
IsPrefix(s, t) == Len(s) <= Len(t) /\ \A i \in 1..Len(s) : t[i] = s[i]

ExecutedOrders(acct) ==
    {id \in DOMAIN acct.orders : acct.orders[id].status = "EXECUTED"}

TradesFor(acct, id) ==
    {i \in 1..Len(acct.trades) : acct.trades[i].order_id = id}

\* C11: trades mirror executed orders.  Every call leaves the trades it
\* found as a prefix of account.trades and removes no stored order; every
\* Trade carries the id of a stored EXECUTED order with the same symbol,
\* action and quantity, and every EXECUTED order has exactly one Trade.
C11_TradesMirrorExecuted ==
    /\ IsPrefix(Pre.trades, account.trades)
    /\ IsPrefix(ledger.opening.trades, account.trades)
    /\ DOMAIN Pre.orders \subseteq DOMAIN account.orders
    /\ DOMAIN ledger.opening.orders \subseteq DOMAIN account.orders
    /\ \A id \in DOMAIN account.orders : account.orders[id].order_id = id
    /\ \A i \in 1..Len(account.trades) :
          LET t == account.trades[i]
          IN  /\ t.order_id \in ExecutedOrders(account)
              /\ account.orders[t.order_id].symbol = t.symbol
              /\ account.orders[t.order_id].action = t.action
              /\ account.orders[t.order_id].quantity = t.quantity
    /\ \A id \in ExecutedOrders(account) :
          Cardinality(TradesFor(account, id)) = 1

\* an executed order with its trade beside a stored order that was canceled
\* and has none
C11_Witness ==
    /\ last.op = "cancel" /\ last.success
    /\ Len(account.trades) = 1
    /\ Cardinality(DOMAIN account.orders) = 2
    /\ ExecutedOrders(account) # {}

\* ------------------------------------------------------------------- C12
\* C12: execution fields are set only on execution.  The order a
\* submit_order call was given, as the call leaves it, has status EXECUTED
\* or a set executed_at or execution_price only if a Trade with its id is
\* in account.trades.
C12_StampedOnlyOnExecution ==
    last.op = "submit" =>
        ((\/ LastOrder.status = "EXECUTED"
          \/ LastOrder.executed_at # None
          \/ LastOrder.execution_price # None)
            => TradesFor(account, LastOrder.order_id) # {})

\* ------------------------------------------------------------------- C13
\* C13: a market SELL_SHORT of q at p is never rejected; it credits cash by
\* q*p - 4.95 and sets positions[symbol] to a new Position with quantity -q
\* and cost basis p, whatever position of the symbol was held, leaving the
\* other positions and daily_pl as they were.
C13_SellShortOverwrites ==
    (MarketSubmit /\ LastOrder.action = "SELL_SHORT") =>
        LET sym == LastOrder.symbol
        IN  /\ last.success /\ last.outcome = "executed"
            /\ account.cash = Pre.cash + LastValue - 495
            /\ DOMAIN account.positions = DOMAIN Pre.positions \cup {sym}
            /\ account.positions[sym] =
                  [symbol |-> sym, quantity |-> -LastOrder.quantity,
                   cost_basis |-> <<LastTrade.price, 1>>,
                   current_price |-> <<>>, market_value |-> <<>>,
                   unrealized_pl |-> <<>>, unrealized_pl_percent |-> <<>>]
            /\ \A other \in DOMAIN Pre.positions \ {sym} :
                  account.positions[other] = Pre.positions[other]
            /\ account.daily_pl = Pre.daily_pl

\* a SELL_SHORT of a symbol held long at another cost basis
C13_Witness ==
    /\ MarketSubmit /\ LastOrder.action = "SELL_SHORT"
    /\ LastOrder.symbol \in DOMAIN Pre.positions
    /\ Pre.positions[LastOrder.symbol].quantity > 0
    /\ Pre.positions[LastOrder.symbol].cost_basis # <<LastTrade.price, 1>>
    /\ last.success

ValidSnapshot(f) ==
    f.kind = "json" /\ Truthy(f.data[1]) /\ Valid(f.data[1])

\* C15: load_account never fails: when the file is absent, cannot be read,
\* cannot be parsed or does not hold a valid account, it returns a fresh
\* account with cash 100000.0 and empty collections and saves it.
C15_LoadNeverFails ==
    last.op = "load" =>
        /\ last.outcome # "error"
        /\ ~ValidSnapshot(PreFile) =>
              /\ last.outcome = "created"
              /\ account = [cash |-> 10000000, positions |-> <<>>,
                            orders |-> <<>>, trades |-> <<>>, daily_pl |-> <<>>]
              /\ last.saved
              /\ last.written => file = SaveAccount(account)

\* ------------------------------------------------------------------- C16
\* C16: a failed save is reported.  save_account returns False when the
\* write fails, and submit_order and cancel_order return success only if
\* the account they changed was written to the file.
C16_FailedSaveReported ==
    /\ last.op = "save" => (last.success <=> last.written)
    /\ (last.op \in {"submit", "cancel"} /\ last.success) =>
          /\ last.written
          /\ file = SaveAccount(account)

\* ------------------------------------------------------------------- C17
\* C17: reset is unconditional.  Whatever the account and the file were,
\* setup_account(c) returns an account with cash c and empty positions,
\* orders, trades and daily_pl, and, its write succeeding, leaves the file
\* holding that account, which the next load_account returns.
C17_ResetUnconditional ==
    last.op = "setup" =>
        /\ account = [cash |-> last.cash, positions |-> <<>>, orders |-> <<>>,
                      trades |-> <<>>, daily_pl |-> <<>>]
        /\ last.saved
        /\ last.written =>
              /\ file = SaveAccount(account)
              /\ LoadAccount(file).outcome = "loaded"
              /\ LoadAccount(file).account = account

\* a reset of an account that held a position, orders and trades, to
\* another cash balance
C17_Witness ==
    /\ last.op = "setup" /\ last.written
    /\ Pre.positions # <<>> /\ Pre.orders # <<>> /\ Pre.trades # <<>>
    /\ Pre.cash # last.cash
    /\ PreFile = SaveAccount(Pre)
    /\ last.cash # 10000000

\* ------------------------------------------------------------------- C18
\* two invocations that loaded the same snapshot and both returned
\* success, f saving first and s second
Raced(f, s) ==
    /\ f # s
    /\ inflight[f].pc = "done" /\ inflight[s].pc = "done"
    /\ inflight[f].success /\ inflight[s].success
    /\ inflight[f].loaded = inflight[s].loaded
    /\ 0 < inflight[f].seq /\ inflight[f].seq < inflight[s].seq

\* C18: lost update.  When two invocations of the submit tool load the
\* same snapshot and both return success, the account the second saver
\* leaves in the file is the loaded snapshot with the second's order (and
\* trade and cash change) alone: the first's order and trade are not in it
\* and its cash change is gone.  The file stays so until another
\* invocation saves.
C18_LostUpdate ==
    \A f, s \in Procs :
        Raced(f, s) =>
            LET base == LoadAccount(inflight[s].loaded[1]).account
                persisted == LoadAccount(inflight[s].written[1]).account
                mine == inflight[s].order[1]
                theirs == inflight[f].order[1]
            IN  /\ mine.order_id \in DOMAIN persisted.orders
                /\ persisted.orders[mine.order_id] = mine
                /\ theirs.order_id \notin DOMAIN persisted.orders
                /\ DOMAIN persisted.orders = DOMAIN base.orders \cup {mine.order_id}
                /\ TradesFor(persisted, theirs.order_id) = {}
                /\ Len(persisted.trades) =
                      Len(base.trades) + (IF mine.status = "EXECUTED" THEN 1 ELSE 0)
                /\ mine.status = "EXECUTED" =>
                      /\ TradesFor(persisted, mine.order_id) # {}
                      /\ persisted.cash = base.cash - 495
                            + (IF mine.action \in {"BUY", "BUY_TO_COVER"} THEN -1 ELSE 1)
                              * mine.quantity * inflight[s].price[1]
                /\ mine.status # "EXECUTED" =>
                      /\ persisted.cash = base.cash
                      /\ persisted.positions = base.positions
                /\ (\A o \in Procs : inflight[o].seq <= inflight[s].seq)
                      => file = inflight[s].written[1]

\* two market BUYs raced: both succeeded, the file holds the second's
\* position of one share and has lost the first's order
C18_Witness ==
    \E f, s \in Procs :
        /\ Raced(f, s)
        /\ inflight[f].order[1].status = "EXECUTED"
        /\ inflight[f].order[1].action = "BUY"
        /\ inflight[s].order[1].action = "BUY"
        /\ inflight[s].order[1].status = "EXECUTED"
        /\ file = inflight[s].written[1]
        /\ inflight[f].order[1].order_id
              \notin DOMAIN LoadAccount(file).account.orders

\* ------------------------------------------------------------------- C19
\* what an invocation's order would be filed under
Filed(p, f) ==
    /\ f.kind = "json"
    /\ "orders" \in DOMAIN f.data[1]
    /\ p \in DOMAIN f.data[1].orders

\* C19: pre-execution failures do not touch the account.  A request with
\* quantity <= 0, or of type LIMIT without a limit price, ends in its error
\* without the account having been loaded or the file written; and a
\* request whose quote fails, the file having held a valid account when it
\* was loaded, ends in an error with no order created or filed, no trade
\* and no write to the file by that invocation.
C19_PreExecutionFailures ==
    \A p \in Procs :
        LET call == inflight[p] IN
        /\ (call.pc = "done" /\
               (call.request[1].quantity <= 0
                \/ (call.request[1].order_type = "LIMIT"
                    /\ call.request[1].limit_price = None))) =>
              /\ call.outcome \in {"invalid_quantity", "no_limit_price"}
              /\ ~call.success
              /\ call.found = None /\ call.loaded = None /\ call.account = None
              /\ call.order = None
              /\ ~call.wrote
              /\ ~Filed(p, file)
        /\ (call.pc = "done" /\ call.outcome = "quote_error"
               /\ ValidSnapshot(call.found[1])) =>
              /\ ~call.success
              /\ call.order = None
              /\ ~call.wrote
              /\ call.loaded = call.found
              /\ call.account = Some(LoadAccount(call.found[1]).account)
              /\ ~Filed(p, file)
              /\ file.kind = "json" =>
                    TradesFor(LoadAccount(file).account, p) = {}

\* a quote failure on a saved account, and a MARKET request for no shares
\* turned away
C19_Witness ==
    \E p, q \in Procs :
        /\ p # q
        /\ inflight[p].pc = "done" /\ inflight[p].outcome = "quote_error"
        /\ ValidSnapshot(inflight[p].found[1])
        /\ inflight[q].pc = "done" /\ inflight[q].outcome = "invalid_quantity"
        /\ inflight[q].request[1].order_type = "MARKET"

\* ------------------------------------------------------------------- C20
\* C20: create_order validates its inputs, so no order stored in
\* account.orders has a non-positive quantity, is of type LIMIT or
\* STOP_LIMIT without a limit price, or of type STOP or STOP_LIMIT without
\* a stop price.
C20_StoredOrdersValidated ==
    \A id \in DOMAIN account.orders :
        LET o == account.orders[id]
        IN  /\ o.quantity > 0
            /\ o.order_type \in {"LIMIT", "STOP_LIMIT"} => o.limit_price # None
            /\ o.order_type \in {"STOP", "STOP_LIMIT"} => o.stop_price # None

\* C21: update_positions(account, prices) sets current_price = price,
\* market_value = quantity * price and unrealized_pl = market_value -
\* quantity * cost_basis on every held position whose symbol has a supplied
\* price, leaves every other position as it was, changes no position's
\* symbol, quantity or cost_basis, leaves cash, orders, trades and daily_pl
\* unchanged, and persists nothing.
C21_PriceRefresh ==
    last.op = "update" =>
        /\ DOMAIN account.positions = DOMAIN Pre.positions
        /\ \A symbol \in DOMAIN account.positions :
              LET before == Pre.positions[symbol]
                  after == account.positions[symbol]
                  market_value == Q(before.quantity * last.prices[symbol])
              IN  /\ after.symbol = before.symbol
                  /\ after.quantity = before.quantity
                  /\ after.cost_basis = before.cost_basis
                  /\ IF symbol \in DOMAIN last.prices
                     THEN /\ after.current_price = Some(last.prices[symbol])
                          /\ after.market_value = Some(market_value)
                          /\ after.unrealized_pl =
                                Some(RSub(market_value,
                                          RMul(Q(before.quantity), before.cost_basis)))
                     ELSE after = before
        /\ account.cash = Pre.cash
        /\ account.orders = Pre.orders
        /\ account.trades = Pre.trades
        /\ account.daily_pl = Pre.daily_pl
        /\ file = PreFile

\* the sum of f[x], x in S
RECURSIVE RTotal(_, _)
RTotal(f, S) ==
    IF S = {} THEN Q(0)
    ELSE LET x == CHOOSE y \in S : TRUE IN RAdd(f[x], RTotal(f, S \ {x}))

\* C22: analyze_portfolio returns the empty-portfolio indicator exactly when
\* the account has no positions; otherwise total_value is cash plus the sum
\* of the positions' market values (unset counting as 0), invested is
\* total_value - cash, total_unrealized_pl is the sum of the positions'
\* unrealized_pl, the positions are listed in non-increasing order of market
\* value, and the percentage of total unrealized P&L is 0 when the invested
\* cost total is not positive; the account and the file are left as they were.
C22_PortfolioAnalysis ==
    last.op = "analyze" =>
        LET result == last.analysis[1]
            held == DOMAIN account.positions
            value == [s \in held |-> OrZero(account.positions[s].market_value)]
            pl == [s \in held |-> OrZero(account.positions[s].unrealized_pl)]
            cost == [s \in held |-> RMul(Q(account.positions[s].quantity),
                                         account.positions[s].cost_basis)]
        IN  /\ ("message" \in DOMAIN result) <=> (held = {})
            /\ held = {} => result = NoPositions
            /\ held # {} =>
                  /\ result.total_value = RAdd(Q(account.cash), RTotal(value, held))
                  /\ result.invested = RSub(result.total_value, Q(account.cash))
                  /\ result.total_unrealized_pl = RTotal(pl, held)
                  /\ Len(result.positions) = Cardinality(held)
                  /\ {result.positions[i].symbol : i \in 1..Len(result.positions)} = held
                  /\ \A i \in 1..Len(result.positions) :
                        result.positions[i].value = value[result.positions[i].symbol]
                  /\ \A i, j \in 1..Len(result.positions) :
                        i < j => ~RGt(result.positions[j].value,
                                      result.positions[i].value)
                  /\ ~RGt(RTotal(cost, held), Q(0)) =>
                        result.total_unrealized_pl_percent = Q(0)
            /\ account = Pre
            /\ file = PreFile

\* an analysis of two positions of different, refreshed market values with
\* a total unrealized P&L other than 0
C22_Witness ==
    /\ last.op = "analyze"
    /\ Cardinality(DOMAIN account.positions) = 2
    /\ \A s \in DOMAIN account.positions : account.positions[s].market_value # None
    /\ account.positions["AAPL"].market_value # account.positions["MSFT"].market_value
    /\ last.analysis[1].total_unrealized_pl # Q(0)

\* the trades of the account made at or after the cutoff of the last call
RecentTrades ==
    {i \in 1..Len(account.trades) : account.trades[i].timestamp >= last.day - last.days}

\* C23: get_trading_history(account, days) returns exactly the trades of
\* account.trades whose timestamp is >= now - days, each once, newest first,
\* and leaves account.trades and the rest of the account unchanged.
C23_TradingHistory ==
    last.op = "history" =>
        /\ Len(last.history) = Cardinality(RecentTrades)
        /\ \A i \in RecentTrades :
              \E j \in 1..Len(last.history) : last.history[j] = account.trades[i]
        /\ \A j \in 1..Len(last.history) :
              \E i \in RecentTrades : last.history[j] = account.trades[i]
        /\ \A j, k \in 1..Len(last.history) :
              j < k => last.history[j].timestamp >= last.history[k].timestamp
        /\ account = Pre
        /\ file = PreFile

\* a history that leaves out an older trade and turns the order of the
\* trades it returns around
C23_Witness ==
    /\ last.op = "history"
    /\ Len(last.history) = 2
    /\ Len(account.trades) = 3
    /\ last.history[1] = account.trades[3]
    /\ last.history[2] = account.trades[2]
    /\ last.history[1].timestamp > last.history[2].timestamp
    /\ account.trades[1].timestamp = last.day - last.days - 1

\* C24: as the unit tests assert, a successful market BUY of q shares at
\* execution price p leaves cash == cash_before - q*p, and a successful
\* market SELL of q shares at execution price p leaves cash ==
\* cash_before + q*p.
C24_CashAsTestsAssert ==
    (MarketSubmit /\ last.success) =>
        /\ LastOrder.action = "BUY" => account.cash = Pre.cash - LastValue
        /\ LastOrder.action = "SELL" => account.cash = Pre.cash + LastValue

\* C25: a submit_order call that returns success invokes save_account
\* exactly once, after the order is stored in orders and (for a market
\* order) the cash, the position and the trade are applied, so that the
\* saved snapshot is the account as the call leaves it; a call that returns
\* failure does not invoke save_account.
C25_PersistOnceAfterMutation ==
    (last.op = "submit" /\ last.outcome # "error") =>
        IF last.success
        THEN /\ last.saves = 1
             /\ file = SaveAccount(account)
             /\ last.order_id \in DOMAIN account.orders
             /\ account.orders[last.order_id] = LastOrder
             /\ LoadAccount(file).account.orders[last.order_id] = LastOrder
             /\ LastOrder.order_type = "MARKET" =>
                   /\ account.trades = Append(Pre.trades, LastTrade)
                   /\ LoadAccount(file).account.trades = account.trades
                   /\ LoadAccount(file).account.cash = account.cash
                   /\ LoadAccount(file).account.positions = account.positions
                   /\ account.cash # Pre.cash
        ELSE /\ last.saves = 0
             /\ file = PreFile

\* a second market order executed: the file holds both trades, the cash
\* and the position as the call left them, and differs from the file the
\* first order saved
C25_Witness ==
    /\ MarketSubmit
    /\ last.success
    /\ last.saves = 1
    /\ Len(account.trades) = 2
    /\ file # PreFile
    /\ PreFile = SaveAccount(Pre)
    /\ LoadAccount(file).account = account

\* C26: in every account state reached through setup_account, create_order,
\* submit_order and cancel_order, states left by a submit_order call that
\* raised included, every key k of account.positions maps to a Position
\* whose symbol is k and whose quantity is not 0.
C26_PositionsMapInvariant ==
    \A k \in DOMAIN account.positions :
        /\ account.positions[k].symbol = k
        /\ account.positions[k].quantity # 0

\* C27: in every account state reached through interleaved update_positions
\* and submit_order calls, every position whose market_value is set has
\* market_value == quantity * current_price and unrealized_pl ==
\* market_value - quantity * cost_basis.
C27_DerivedFields ==
    \A k \in DOMAIN account.positions :
        LET position == account.positions[k]
        IN  position.market_value # None =>
                /\ position.current_price # None
                /\ position.market_value =
                      Some(Q(position.quantity * position.current_price[1]))
                /\ position.unrealized_pl =
                      Some(RSub(position.market_value[1],
                                RMul(Q(position.quantity), position.cost_basis)))

\* the change of a stored order's status in one step is one the lifecycle
\* allows
LifecycleStep ==
    /\ \A id \in DOMAIN account.orders :
          /\ id \in DOMAIN account'.orders
          /\ LET before == account.orders[id].status
                 after == account'.orders[id].status
             IN  \/ after = before
                 \/ /\ before = "OPEN"
                    /\ after = "CANCELED"
                    /\ last'.op = "cancel"
                    /\ last'.order_id = id
                 \/ /\ before = "OPEN"
                    /\ after = "EXECUTED"
                    /\ last'.op \in {"submit", "resubmit"}
                    /\ account'.orders[id].order_type = "MARKET"
    /\ \A id \in DOMAIN account'.orders :
          /\ account'.orders[id].status \in {"OPEN", "EXECUTED", "CANCELED"}
          /\ account'.orders[id].order_type = "MARKET" =>
                account'.orders[id].status # "OPEN"

\* C28: an order stored in account.orders changes status only from OPEN to
\* EXECUTED (submit_order of a MARKET order) or from OPEN to CANCELED
\* (cancel_order); an EXECUTED or CANCELED order keeps its status under
\* every later submit_order and cancel_order call, a MARKET order is never
\* stored with status OPEN, and no status is ever REJECTED or EXPIRED.
C28_OrderLifecycle == [][LifecycleStep]_vars

\* an executed market order and a canceled limit order are stored, and the
\* last call, a cancel of one of them or a submit_order given the executed
\* order again, has left both statuses as they were
C28_Witness ==
    /\ \E id \in DOMAIN account.orders :
          /\ account.orders[id].status = "EXECUTED"
          /\ account.orders[id].order_type = "MARKET"
    /\ \E id \in DOMAIN account.orders :
          /\ account.orders[id].status = "CANCELED"
          /\ account.orders[id].order_type = "LIMIT"
    /\ \/ last.op = "cancel" /\ last.outcome = "cannot_cancel"
       \/ last.op = "resubmit" /\ LastOrder.order_type = "MARKET"
    /\ \A id \in DOMAIN account.orders :
          account.orders[id].status = Pre.orders[id].status

\* C29: a successful market SELL of fewer shares than are held reduces the
\* position's quantity by the quantity sold, keeps the position with its
\* cost_basis, and leaves daily_pl unchanged; the SELL that brings the
\* quantity to zero removes the position and adds to daily_pl[today] the
\* realized P&L of the shares of that order only, trade_value - quantity *
\* cost_basis.
C29_PartialSell ==
    (MarketSell /\ last.success) =>
        LET symbol == LastOrder.symbol
            held == Pre.positions[symbol]
            sold == LastOrder.quantity
            before == IF last.day \in DOMAIN Pre.daily_pl
                      THEN Pre.daily_pl[last.day] ELSE Q(0)
        IN  IF sold < held.quantity
            THEN /\ symbol \in DOMAIN account.positions
                 /\ account.positions[symbol].quantity = held.quantity - sold
                 /\ account.positions[symbol].cost_basis = held.cost_basis
                 /\ account.positions[symbol] =
                       [held EXCEPT !.quantity = held.quantity - sold]
                 /\ account.daily_pl = Pre.daily_pl
            ELSE /\ symbol \notin DOMAIN account.positions
                 /\ DOMAIN account.daily_pl = DOMAIN Pre.daily_pl \cup {last.day}
                 /\ account.daily_pl[last.day] =
                       RAdd(before, RSub(Q(LastValue), RMul(Q(sold), held.cost_basis)))
                 /\ \A d \in DOMAIN Pre.daily_pl \ {last.day} :
                       account.daily_pl[d] = Pre.daily_pl[d]

\* the SELL that closes a position a SELL at another price reduced before:
\* daily_pl holds the P&L of the last share sold and nothing for the first
C29_Witness ==
    /\ MarketSell
    /\ last.success
    /\ Len(account.trades) = 3
    /\ account.trades[2].action = "SELL"
    /\ account.trades[2].symbol = "AAPL"
    /\ account.trades[2].price = 600
    /\ LastOrder.symbol = "AAPL"
    /\ LastTrade.price = 100
    /\ "AAPL" \notin DOMAIN account.positions
    /\ account.daily_pl = Put(<<>>, last.day, Q(0))

\* the account the tool's first load_account returned: the one in the file,
\* or the default account it created when the file was absent
ToolOpening ==
    IF \E p \in Procs : inflight[p].found = Some(NoFile)
    THEN PaperAccount(DEFAULT_CASH)
    ELSE ledger.opening

\* the account after these trades are executed on it one after the other
RECURSIVE Replay(_, _)
Replay(acct, trades) ==
    IF trades = <<>> THEN acct
    ELSE LET t == Head(trades)
             order == CreateOrder(t.order_id, t.symbol, t.action, t.quantity,
                                  "MARKET", None, t.timestamp)
         IN  Replay(SubmitOrder(order, acct, t.price, t.timestamp).account,
                    Tail(trades))

\* every file contents the run has written: by a load that created the
\* account, by an execution, and the file as it is
Snapshots ==
    {file}
    \cup {inflight[p].loaded[1] : p \in {q \in Procs : inflight[q].loaded # None}}
    \cup {inflight[p].written[1] : p \in {q \in Procs : inflight[q].written # None}}

\* the cash, positions and daily_pl of the snapshot are those its own trades
\* produce from the opening account, and each of its trades has its order
SelfConsistent(f) ==
    LET snapshot == LoadAccount(f).account
        replayed == Replay(ToolOpening, snapshot.trades)
    IN  /\ ValidSnapshot(f)
        /\ snapshot.cash = replayed.cash
        /\ snapshot.positions = replayed.positions
        /\ snapshot.daily_pl = replayed.daily_pl
        /\ snapshot.trades = replayed.trades
        /\ \A i \in 1..Len(snapshot.trades) :
              /\ snapshot.trades[i].order_id \in DOMAIN snapshot.orders
              /\ snapshot.orders[snapshot.trades[i].order_id].status = "EXECUTED"

\* C30: under every interleaving of concurrent invocations of the submit
\* tool on one persisted account, each snapshot written to the file is the
\* whole account of one invocation: its cash and positions are what its own
\* trades, applied in order to the initial account, produce, so the file
\* never holds a mix of two invocations' effects.
C30_SnapshotsConsistent ==
    /\ \A f \in Snapshots : f # NoFile => SelfConsistent(f)
    /\ \A p \in Procs :
          inflight[p].written # None =>
              /\ inflight[p].written[1] = SaveAccount(inflight[p].account[1])
              /\ inflight[p].order[1].order_id \in
                    DOMAIN LoadAccount(inflight[p].written[1]).account.orders

\* two invocations that loaded the same snapshot both executed a market
\* order: the file is the second's snapshot, with one trade and the cash
\* and position of that trade alone
C30_Witness ==
    \E f, s \in Procs :
        /\ Raced(f, s)
        /\ inflight[f].order[1].status = "EXECUTED"
        /\ inflight[s].order[1].status = "EXECUTED"
        /\ file = inflight[s].written[1]
        /\ file # inflight[f].written[1]
        /\ Len(LoadAccount(file).account.trades) = 1
        /\ LoadAccount(file).account.trades[1].order_id = s
        /\ SelfConsistent(file)
====
